---- MODULE Spec2Model ----
(***************************************************************************)
(* Model of glooctl's route package: the virtual host resolver             *)
(* (virtualHost, createDefaultVHost, contains), the route builder          *)
(* (fromRouteDetail) and the Kubernetes upstream lookup (upstream).        *)
(* Strings that the code splits, trims or compares character by character  *)
(* are sequences of one-character strings; all other strings are opaque.   *)
(***************************************************************************)
EXTENDS Integers, Sequences, FiniteSets, TLC

(* ------------------------------ bounds --------------------------------- *)
MaxInitVHosts == 2
MaxHeaderLen == 3
MaxUpstreams == 2

(* ------------------------ virtual host resolver ------------------------ *)
defaultVHost == "default"

\* the concurrent invocations of the command line client
Procs == {"cli1", "cli2"}

\* names a stored virtual host can have, and the arguments of a call
VHostNames == {defaultVHost, "a.com", "vh1"}
NameArgs == {"", defaultVHost, "vh1"}
DomainArgs == {"", "a.com", defaultVHost}
InitDomainLists == {<<>>, <<"b.com", "a.com">>}

\* v1.VirtualHost: Name and Domains; the nil pointer is NilVHost
VirtualHost(name, domains) == [nil |-> FALSE, Name |-> name, Domains |-> domains]
NilVHost == [nil |-> TRUE, Name |-> "", Domains |-> <<>>]

\* Go error values of the resolver
NoErr == [kind |-> "nil", domain |-> "", count |-> 0]
AlreadyExistsErr == [kind |-> "AlreadyExists", domain |-> "", count |-> 0]
NotFoundErr == [kind |-> "NotFound", domain |-> "", count |-> 0]
StorageErr == [kind |-> "StorageError", domain |-> "", count |-> 0]
WrapListErr == [kind |-> "UnableToList", domain |-> "", count |-> 0]
NoneForDomainErr(d) == [kind |-> "NoVirtualHostForDomain", domain |-> d, count |-> 0]
MatchedManyErr(d, n) == [kind |-> "DomainMatchedMany", domain |-> d, count |-> n]

IsAlreadyExists(err) == err.kind = "AlreadyExists"

VARIABLES store, pc, vhostname, domain, create, validOnes, ret, ops,
          rd, routeRet, upstreams, kube, upstreamRet

vhostVars == <<store, pc, vhostname, domain, create, validOnes, ret, ops>>
routeVars == <<rd, routeRet>>
upstreamVars == <<upstreams, kube, upstreamRet>>
vars == <<store, pc, vhostname, domain, create, validOnes, ret, ops,
          rd, routeRet, upstreams, kube, upstreamRet>>

\* contents of storage: the virtual hosts that exist, keyed by name
Stored(s) == {n \in VHostNames : ~s[n].nil}

\* contains(vh, d): linear scan of vh.Domains
\* (variant: only the first domain is compared)
contains_FirstOnly(vh, d) == Len(vh.Domains) >= 1 /\ vh.Domains[1] = d

RECURSIVE containsFrom(_, _, _)
containsFrom(vh, d, i) ==
  IF i > Len(vh.Domains) THEN FALSE
  ELSE IF vh.Domains[i] = d THEN TRUE
  ELSE containsFrom(vh, d, i + 1)

contains(vh, d) == containsFrom(vh, d, 1)

\* storage Create: rejects a name that exists, otherwise stores the object
CreateVirtualHost(s, vh) ==
  IF ~s[vh.Name].nil
  THEN [store |-> s, vh |-> NilVHost, err |-> AlreadyExistsErr]
  ELSE [store |-> [s EXCEPT ![vh.Name] = vh], vh |-> vh, err |-> NoErr]

\* storage Get by name
GetVirtualHost(s, name) ==
  IF name \in VHostNames /\ ~s[name].nil
  THEN [vh |-> s[name], err |-> NoErr]
  ELSE [vh |-> NilVHost, err |-> NotFoundErr]

\* storage List: every stored virtual host
ListVirtualHosts(s) == {s[n] : n \in Stored(s)}

\* the (vh, created, err) triple a call returns
Return(vh, created, err) == [vh |-> vh, created |-> created, err |-> err]
NoReturn == Return(NilVHost, FALSE, NoErr)

\* one storage operation issued by a call, with its outcome
Op(kind, name, err) == [op |-> kind, name |-> name, err |-> err.kind]

InitStores ==
  {s \in [VHostNames -> {NilVHost} \cup
                         {VirtualHost("x", dl) : dl \in InitDomainLists}] :
     Cardinality({n \in VHostNames : ~s[n].nil}) <= MaxInitVHosts}

NameStore(s) == [n \in VHostNames |->
                   IF s[n].nil THEN NilVHost ELSE VirtualHost(n, s[n].Domains)]

RouteIdle ==
  /\ rd = [event |-> "", pathExact |-> "", pathRegex |-> "", pathPrefix |-> "",
           verb |-> <<>>, headers |-> <<>>, upstream |-> "", function |-> "",
           prefixRewrite |-> ""]
  /\ routeRet = [called |-> FALSE]

UpstreamIdle ==
  /\ upstreams = <<>>
  /\ kube = [name |-> <<>>, namespace |-> <<>>, port |-> 0]
  /\ upstreamRet = [called |-> FALSE]

Init ==
  /\ store \in {NameStore(s) : s \in InitStores}
  /\ pc = [p \in Procs |-> "idle"]
  /\ vhostname = [p \in Procs |-> ""]
  /\ domain = [p \in Procs |-> ""]
  /\ create = [p \in Procs |-> FALSE]
  /\ validOnes = [p \in Procs |-> {}]
  /\ ret = [p \in Procs |-> NoReturn]
  /\ ops = [p \in Procs |-> <<>>]
  /\ RouteIdle
  /\ UpstreamIdle

\* a caller enters virtualHost(sc, vhostname, domain, create)
Call(p) ==
  /\ pc[p] = "idle"
  /\ \E n \in NameArgs, d \in DomainArgs, c \in BOOLEAN :
       /\ vhostname' = [vhostname EXCEPT ![p] = n]
       /\ domain' = [domain EXCEPT ![p] = d]
       /\ create' = [create EXCEPT ![p] = c]
  /\ pc' = [pc EXCEPT ![p] = "createDefault"]
  /\ validOnes' = [validOnes EXCEPT ![p] = {}]
  /\ ret' = [ret EXCEPT ![p] = NoReturn]
  /\ ops' = [ops EXCEPT ![p] = <<>>]
  /\ UNCHANGED <<store, rd, routeRet, upstreams, kube, upstreamRet>>

\* createDefaultVHost: which outcomes of the Create make it return the error
\* (variant: "already exists" is fatal too)
DefaultCreateFails_Strict(err) == err # NoErr

DefaultCreateFails(err) == err # NoErr /\ ~IsAlreadyExists(err)

\* virtualHost: the step that follows createDefaultVHost
\* (variant: the domain is looked at before the explicit name)
AfterDefault_DomainFirst(name, d) ==
  IF d # "" THEN "list"
  ELSE IF name # "" THEN "getNamed"
  ELSE "getDefault"

AfterDefault(name, d) ==
  IF name # "" THEN "getNamed"
  ELSE IF d = "" THEN "getDefault"
  ELSE "list"

\* virtualHost: switch len(validOnes)
\* (variant: several matches are treated like one)
SwitchLen_FirstWins(n) == IF n = 0 THEN "zero" ELSE "one"

SwitchLen(n) == IF n = 0 THEN "zero" ELSE IF n = 1 THEN "one" ELSE "many"

\* virtualHost: the virtual host created for an unowned domain
\* (variant: the domain is not put in the domain list)
DomainVHost_NoDomains(d) == VirtualHost(d, <<>>)

DomainVHost(d) == VirtualHost(d, <<d>>)

\* virtualHost: which outcomes of the domain Create make the call fail
\* (variant: "already exists" is swallowed as in createDefaultVHost)
DomainCreateFails_Swallow(err) == err # NoErr /\ ~IsAlreadyExists(err)

DomainCreateFails(err) == err # NoErr

\* the call returns (vh, created, err) to its caller
Finish(p, vh, created, err) ==
  /\ ret' = [ret EXCEPT ![p] = Return(vh, created, err)]
  /\ pc' = [pc EXCEPT ![p] = "done"]

\* createDefaultVHost and the branch of virtualHost that follows it
createDefaultVHost(p) ==
  /\ pc[p] = "createDefault"
  /\ \E fault \in BOOLEAN :
       LET r == IF fault
                THEN [store |-> store, vh |-> NilVHost, err |-> StorageErr]
                ELSE CreateVirtualHost(store, VirtualHost(defaultVHost, <<>>))
       IN /\ store' = r.store
          /\ ops' = [ops EXCEPT ![p] = Append(@, Op("Create", defaultVHost, r.err))]
          /\ IF DefaultCreateFails(r.err)
             THEN Finish(p, NilVHost, FALSE, r.err)
             ELSE /\ pc' = [pc EXCEPT ![p] = AfterDefault(vhostname[p], domain[p])]
                  /\ ret' = ret
  /\ UNCHANGED <<vhostname, domain, create, validOnes,
                 rd, routeRet, upstreams, kube, upstreamRet>>

\* Get of a name: the explicit name, or the default one when no domain is given
GetStep(p, name) ==
  \E fault \in BOOLEAN :
    LET r == IF fault THEN [vh |-> NilVHost, err |-> StorageErr]
             ELSE GetVirtualHost(store, name)
    IN /\ ops' = [ops EXCEPT ![p] = Append(@, Op("Get", name, r.err))]
       /\ IF r.err # NoErr
          THEN Finish(p, NilVHost, FALSE, r.err)
          ELSE Finish(p, r.vh, FALSE, NoErr)

getNamed(p) ==
  /\ pc[p] = "getNamed"
  /\ GetStep(p, vhostname[p])
  /\ UNCHANGED <<store, vhostname, domain, create, validOnes,
                 rd, routeRet, upstreams, kube, upstreamRet>>

getDefault(p) ==
  /\ pc[p] = "getDefault"
  /\ GetStep(p, defaultVHost)
  /\ UNCHANGED <<store, vhostname, domain, create, validOnes,
                 rd, routeRet, upstreams, kube, upstreamRet>>

\* List, the filter over the listed virtual hosts and the switch on the count
list(p) ==
  /\ pc[p] = "list"
  /\ \E fault \in BOOLEAN :
       IF fault
       THEN /\ ops' = [ops EXCEPT ![p] = Append(@, Op("List", "", StorageErr))]
            /\ Finish(p, NilVHost, FALSE, WrapListErr)
            /\ validOnes' = validOnes
       ELSE LET valid == {v \in ListVirtualHosts(store) : contains(v, domain[p])}
                n == Cardinality(valid)
            IN /\ ops' = [ops EXCEPT ![p] = Append(@, Op("List", "", NoErr))]
               /\ validOnes' = [validOnes EXCEPT ![p] = valid]
               /\ IF SwitchLen(n) = "zero"
                  THEN IF ~create[p]
                       THEN Finish(p, NilVHost, FALSE, NoneForDomainErr(domain[p]))
                       ELSE /\ pc' = [pc EXCEPT ![p] = "create"]
                            /\ ret' = ret
                  ELSE IF SwitchLen(n) = "one"
                  THEN Finish(p, CHOOSE v \in valid : TRUE, FALSE, NoErr)
                  ELSE Finish(p, NilVHost, FALSE, MatchedManyErr(domain[p], n))
  /\ UNCHANGED <<store, vhostname, domain, create,
                 rd, routeRet, upstreams, kube, upstreamRet>>

\* Create of the virtual host named after the domain (case 0, create set)
createForDomain(p) ==
  /\ pc[p] = "create"
  /\ \E fault \in BOOLEAN :
       LET r == IF fault
                THEN [store |-> store, vh |-> NilVHost, err |-> StorageErr]
                ELSE CreateVirtualHost(store, DomainVHost(domain[p]))
       IN /\ store' = r.store
          /\ ops' = [ops EXCEPT ![p] = Append(@, Op("Create", domain[p], r.err))]
          /\ IF DomainCreateFails(r.err)
             THEN Finish(p, NilVHost, FALSE, r.err)
             ELSE Finish(p, r.vh, TRUE, NoErr)
  /\ UNCHANGED <<vhostname, domain, create, validOnes,
                 rd, routeRet, upstreams, kube, upstreamRet>>

\* the caller has taken the result; the process may call again
Returned(p) ==
  /\ pc[p] = "done"
  /\ pc' = [pc EXCEPT ![p] = "idle"]
  /\ vhostname' = [vhostname EXCEPT ![p] = ""]
  /\ domain' = [domain EXCEPT ![p] = ""]
  /\ create' = [create EXCEPT ![p] = FALSE]
  /\ validOnes' = [validOnes EXCEPT ![p] = {}]
  /\ ret' = [ret EXCEPT ![p] = NoReturn]
  /\ ops' = [ops EXCEPT ![p] = <<>>]
  /\ UNCHANGED <<store, rd, routeRet, upstreams, kube, upstreamRet>>

Next ==
  \E p \in Procs :
    \/ Call(p)
    \/ createDefaultVHost(p)
    \/ getNamed(p)
    \/ getDefault(p)
    \/ list(p)
    \/ createForDomain(p)
    \/ Returned(p)

Spec == Init /\ [][Next]_vars

(* ----------------------------- route builder -------------------------- *)
\* the characters of the strings that the builder splits and trims
HeaderChars == {"a", ":", ",", " "}
VerbInputs == {<<>>, <<"g">>, <<" ", "g", ",", "p", " ">>}

StringsUpTo(chars, n) == UNION {[1..k -> chars] : k \in 0..n}

\* strings.Split(s, sep) for a one-character separator
RECURSIVE SplitFrom(_, _, _, _)
SplitFrom(s, sep, i, cur) ==
  IF i > Len(s) THEN <<cur>>
  ELSE IF s[i] = sep THEN <<cur>> \o SplitFrom(s, sep, i + 1, <<>>)
  ELSE SplitFrom(s, sep, i + 1, Append(cur, s[i]))

Split(s, sep) == SplitFrom(s, sep, 1, <<>>)

\* strings.SplitN(s, sep, 2): cut at the first separator, if there is one
RECURSIVE IndexFrom(_, _, _)
IndexFrom(s, sep, i) ==
  IF i > Len(s) THEN 0
  ELSE IF s[i] = sep THEN i
  ELSE IndexFrom(s, sep, i + 1)

SplitN2(s, sep) ==
  LET k == IndexFrom(s, sep, 1)
  IN IF k = 0 THEN <<s>>
     ELSE <<SubSeq(s, 1, k - 1), SubSeq(s, k + 1, Len(s))>>

\* strings.TrimSpace
RECURSIVE TrimLeft(_)
TrimLeft(s) == IF s # <<>> /\ Head(s) = " " THEN TrimLeft(Tail(s)) ELSE s

RECURSIVE TrimRight(_)
TrimRight(s) ==
  IF s # <<>> /\ s[Len(s)] = " " THEN TrimRight(SubSeq(s, 1, Len(s) - 1)) ELSE s

TrimSpace(s) == TrimRight(TrimLeft(s))

\* strings.ToUpper
UpperChar(c) == IF c = "g" THEN "G" ELSE IF c = "p" THEN "P"
                ELSE IF c = "a" THEN "A" ELSE c

ToUpper(s) == [i \in 1..Len(s) |-> UpperChar(s[i])]

\* a Go slice or map that may be nil
NilValue == [nil |-> TRUE, val |-> <<>>]
Value(v) == [nil |-> FALSE, val |-> v]

\* fromRouteDetail: the verbs of a request matcher
parseVerbs(verb) ==
  IF verb = <<>> THEN NilValue
  ELSE LET vs == Split(ToUpper(verb), ",")
       IN Value([i \in 1..Len(vs) |-> TrimSpace(vs[i])])

\* fromRouteDetail: the headers of a request matcher; entries are stored in
\* order, a later entry replacing an earlier one with the same key
RECURSIVE parseEntries(_, _, _)
parseEntries(entries, i, m) ==
  IF i > Len(entries) THEN [err |-> "nil", headers |-> Value(m)]
  ELSE LET parts == SplitN2(entries[i], ":")
       IN IF Len(parts) # 2
          THEN [err |-> "UnableToParseHeaders", headers |-> NilValue]
          ELSE LET k == TrimSpace(parts[1])
                   v == TrimSpace(parts[2])
               IN parseEntries(entries, i + 1,
                               [x \in DOMAIN m \cup {k} |->
                                  IF x = k THEN v ELSE m[x]])

parseHeaders(headers) ==
  IF headers = <<>> THEN [err |-> "nil", headers |-> NilValue]
  ELSE parseEntries(Split(headers, ","), 1, <<>>)

\* v1.Route and its parts; NilRoute is the nil pointer
NoMatcher == [kind |-> "none", EventType |-> "", PathKind |-> "", Path |-> "",
              Verbs |-> NilValue, Headers |-> NilValue]
EventMatcher(e) == [kind |-> "event", EventType |-> e, PathKind |-> "", Path |-> "",
                    Verbs |-> NilValue, Headers |-> NilValue]
RequestMatcher(pk, path, verbs, headers) ==
  [kind |-> "request", EventType |-> "", PathKind |-> pk, Path |-> path,
   Verbs |-> verbs, Headers |-> headers]

NoDestination == [kind |-> "none", UpstreamName |-> "", FunctionName |-> ""]
UpstreamDestination(u) == [kind |-> "upstream", UpstreamName |-> u, FunctionName |-> ""]
FunctionDestination(u, f) == [kind |-> "function", UpstreamName |-> u, FunctionName |-> f]

Route(m, rewrite, dest) ==
  [nil |-> FALSE, Matcher |-> m, PrefixRewrite |-> rewrite,
   SingleDestination |-> dest, MultipleDestinations |-> <<>>]
NilRoute ==
  [nil |-> TRUE, Matcher |-> NoMatcher, PrefixRewrite |-> "",
   SingleDestination |-> NoDestination, MultipleDestinations |-> <<>>]

\* fromRouteDetail, matcher part
matcher(r) ==
  IF r.event # "" THEN [err |-> "nil", m |-> EventMatcher(r.event)]
  ELSE LET verbs == parseVerbs(r.verb)
           h == parseHeaders(r.headers)
       IN IF h.err # "nil" THEN [err |-> h.err, m |-> NoMatcher]
          ELSE IF r.pathExact # ""
          THEN [err |-> "nil", m |-> RequestMatcher("exact", r.pathExact, verbs, h.headers)]
          ELSE IF r.pathRegex # ""
          THEN [err |-> "nil", m |-> RequestMatcher("regex", r.pathRegex, verbs, h.headers)]
          ELSE IF r.pathPrefix # ""
          THEN [err |-> "nil", m |-> RequestMatcher("prefix", r.pathPrefix, verbs, h.headers)]
          ELSE [err |-> "NoMatcher", m |-> NoMatcher]

\* fromRouteDetail, destination part
\* (variant: the function name is tested before the upstream name)
destination_FunctionFirst(r) ==
  IF r.function # ""
  THEN [err |-> "nil", d |-> FunctionDestination(r.upstream, r.function)]
  ELSE IF r.upstream # ""
  THEN [err |-> "nil", d |-> UpstreamDestination(r.upstream)]
  ELSE [err |-> "NoDestination", d |-> NoDestination]

destination(r) ==
  IF r.upstream = "" THEN [err |-> "NoUpstream", d |-> NoDestination]
  ELSE IF r.function # ""
  THEN [err |-> "nil", d |-> FunctionDestination(r.upstream, r.function)]
  ELSE IF r.upstream # ""
  THEN [err |-> "nil", d |-> UpstreamDestination(r.upstream)]
  ELSE [err |-> "NoDestination", d |-> NoDestination]

fromRouteDetail(r) ==
  LET m == matcher(r)
      d == destination(r)
  IN IF m.err # "nil" THEN [called |-> TRUE, route |-> NilRoute, err |-> m.err]
     ELSE IF d.err # "nil" THEN [called |-> TRUE, route |-> NilRoute, err |-> d.err]
     ELSE [called |-> TRUE, route |-> Route(m.m, r.prefixRewrite, d.d), err |-> "nil"]

RouteDetails ==
  [event : {"", "created"}, pathExact : {"", "/a"}, pathRegex : {"", "/b.*"},
   pathPrefix : {"", "/c"}, verb : VerbInputs,
   headers : StringsUpTo(HeaderChars, MaxHeaderLen),
   upstream : {"", "u1"}, function : {"", "f1"}, prefixRewrite : {"", "/r"}]

VHostIdle ==
  /\ store = [n \in VHostNames |-> NilVHost]
  /\ pc = [p \in Procs |-> "idle"]
  /\ vhostname = [p \in Procs |-> ""]
  /\ domain = [p \in Procs |-> ""]
  /\ create = [p \in Procs |-> FALSE]
  /\ validOnes = [p \in Procs |-> {}]
  /\ ret = [p \in Procs |-> NoReturn]
  /\ ops = [p \in Procs |-> <<>>]

InitRoute ==
  /\ rd \in RouteDetails
  /\ routeRet = [called |-> FALSE]
  /\ VHostIdle
  /\ UpstreamIdle

\* a caller builds the route of its details
BuildRoute ==
  /\ ~routeRet.called
  /\ routeRet' = fromRouteDetail(rd)
  /\ UNCHANGED <<rd, vhostVars, upstreamVars>>

NextRoute == BuildRoute

SpecRoute == InitRoute /\ [][NextRoute]_vars

(* ----------------------- Kubernetes upstream lookup ------------------- *)
upstreamTypeKubernetes == "kubernetes"
kubeSpecName == "service_name"
kubeSpecNamespace == "service_namespace"
kubeSpecPort == "service_port"

\* a value of an upstream's spec: the key is absent, or holds a string (a
\* sequence of characters) or a number
Absent == [t |-> "absent", s |-> <<>>, n |-> 0]
Str(v) == [t |-> "string", s |-> v, n |-> 0]
Num(v) == [t |-> "number", s |-> <<>>, n |-> v]

\* s[key].(string): the value and whether the key holds a string
StringField(spec, key) == [exists |-> spec[key].t = "string", v |-> spec[key].s]

\* strconv.Itoa
Digit(d) == CASE d = 0 -> "0" [] d = 1 -> "1" [] d = 2 -> "2" [] d = 3 -> "3"
              [] d = 4 -> "4" [] d = 5 -> "5" [] d = 6 -> "6" [] d = 7 -> "7"
              [] d = 8 -> "8" [] d = 9 -> "9"

RECURSIVE Digits(_)
Digits(n) == IF n < 10 THEN <<Digit(n)>> ELSE Append(Digits(n \div 10), Digit(n % 10))

Itoa(n) == IF n < 0 THEN <<"-">> \o Digits(0 - n) ELSE Digits(n)

NilUpstream == [nil |-> TRUE, Name |-> 0, Type |-> "", Spec |-> <<>>]

\* upstream: the tests of one iteration of the loop
\* (variant: any present service_port is accepted, whatever its text)
skipped_AnyPort(u, k) ==
  IF u.Type # upstreamTypeKubernetes THEN TRUE
  ELSE LET n == StringField(u.Spec, kubeSpecName)
           ns == StringField(u.Spec, kubeSpecNamespace)
           p == StringField(u.Spec, kubeSpecPort)
       IN IF ~n.exists THEN TRUE
          ELSE IF n.v # k.name THEN TRUE
          ELSE IF k.namespace # <<>> /\ (~ns.exists \/ ns.v # k.namespace) THEN TRUE
          ELSE IF k.port # 0 /\ u.Spec[kubeSpecPort].t = "absent" THEN TRUE
          ELSE FALSE

skipped(u, k) ==
  IF u.Type # upstreamTypeKubernetes THEN TRUE
  ELSE LET n == StringField(u.Spec, kubeSpecName)
           ns == StringField(u.Spec, kubeSpecNamespace)
           p == StringField(u.Spec, kubeSpecPort)
       IN IF ~n.exists THEN TRUE
          ELSE IF n.v # k.name THEN TRUE
          ELSE IF k.namespace # <<>> /\ (~ns.exists \/ ns.v # k.namespace) THEN TRUE
          ELSE IF k.port # 0 /\ (~p.exists \/ p.v # Itoa(k.port)) THEN TRUE
          ELSE FALSE

\* upstream: the loop over the listed upstreams
\* (variant: the list is scanned from its end)
RECURSIVE upstreamFrom_LastWins(_, _, _)
upstreamFrom_LastWins(k, us, i) ==
  IF i > Len(us) THEN [called |-> TRUE, u |-> NilUpstream, err |-> "UnableToFind"]
  ELSE IF skipped(us[Len(us) + 1 - i], k) THEN upstreamFrom_LastWins(k, us, i + 1)
  ELSE [called |-> TRUE, u |-> us[Len(us) + 1 - i], err |-> "nil"]

RECURSIVE upstreamFrom(_, _, _)
upstreamFrom(k, us, i) ==
  IF i > Len(us) THEN [called |-> TRUE, u |-> NilUpstream, err |-> "UnableToFind"]
  ELSE IF skipped(us[i], k) THEN upstreamFrom(k, us, i + 1)
  ELSE [called |-> TRUE, u |-> us[i], err |-> "nil"]

\* upstream(kube, sc): List of the stored upstreams, then the loop
upstream(k, us, listFails) ==
  IF listFails THEN [called |-> TRUE, u |-> NilUpstream, err |-> "StorageError"]
  ELSE upstreamFrom(k, us, 1)

\* the specs of the stored upstreams and the queries
\* (a spec without a string service_name "x" is taken with one namespace and
\* port only: the loop skips it before it reads them)
KubeSpecs ==
  {sp \in [service_name : {Absent, Str(<<"x">>), Num(1)},
           service_namespace : {Absent, Str(<<"n", "s">>), Str(<<"n", "s", "2">>)},
           service_port : {Absent, Str(<<"8", "0">>), Str(<<"0", "8", "0">>), Num(80)}] :
     \/ sp.service_name = Str(<<"x">>)
     \/ sp.service_namespace = Str(<<"n", "s">>) /\ sp.service_port = Str(<<"8", "0">>)}

UpstreamKinds ==
  {[Type |-> upstreamTypeKubernetes, Spec |-> sp] : sp \in KubeSpecs} \cup
  {[Type |-> "aws", Spec |-> [service_name |-> Str(<<"x">>),
                              service_namespace |-> Str(<<"n", "s">>),
                              service_port |-> Str(<<"8", "0">>)]]}

\* storage names are unique: the upstream at position i is named i
UpstreamLists ==
  UNION {{[i \in 1..n |-> [nil |-> FALSE, Name |-> i,
                           Type |-> f[i].Type, Spec |-> f[i].Spec]] :
            f \in [1..n -> UpstreamKinds]} : n \in 0..MaxUpstreams}

KubeQueries ==
  [name : {<<"x">>, <<"y">>}, namespace : {<<>>, <<"n", "s">>}, port : {0, 80, 7}]

InitUpstream ==
  /\ upstreams \in UpstreamLists
  /\ kube \in KubeQueries
  /\ upstreamRet = [called |-> FALSE]
  /\ VHostIdle
  /\ RouteIdle

\* a caller looks up the upstream of a Kubernetes service; List returns the
\* stored upstreams or fails
LookupUpstream ==
  /\ ~upstreamRet.called
  /\ \E listFails \in BOOLEAN : upstreamRet' = upstream(kube, upstreams, listFails)
  /\ UNCHANGED <<upstreams, kube, vhostVars, routeVars>>

NextUpstream == LookupUpstream

SpecUpstream == InitUpstream /\ [][NextUpstream]_vars

(* ------------------- properties of the virtual host resolver ---------- *)
\* the stored virtual hosts whose domain list has d
Listing(s, d) ==
  {n \in Stored(s) : \E i \in 1..Len(s[n].Domains) : s[n].Domains[i] = d}

DefaultCreate(err) == [op |-> "Create", name |-> defaultVHost, err |-> err]
ListOk == [op |-> "List", name |-> "", err |-> "nil"]
Faulted(p) == \E i \in 1..Len(ops[p]) : ops[p][i].err = "StorageError"
InCall(p) == pc[p] \notin {"idle", "createDefault"}

\* C1: in every call the Create of "default" is the first storage operation;
\* "already exists" from it is swallowed and the call goes on to its next
\* operation, and any other error ends the call with (nil, false, that error)
\* after that single operation.
C1_DefaultCreateFirst ==
  \A p \in Procs :
    /\ pc[p] \in {"idle", "createDefault"} => ops[p] = <<>>
    /\ InCall(p) =>
         /\ Len(ops[p]) >= 1
         /\ ops[p][1].op = "Create" /\ ops[p][1].name = defaultVHost
         /\ ops[p][1].err \in {"nil", "AlreadyExists"} =>
              /\ pc[p] = "done" => Len(ops[p]) >= 2
              /\ pc[p] \in {"getNamed", "getDefault", "list"} => Len(ops[p]) = 1
         /\ ops[p][1].err \notin {"nil", "AlreadyExists"} =>
              /\ pc[p] = "done"
              /\ Len(ops[p]) = 1
              /\ ret[p] = Return(NilVHost, FALSE, StorageErr)

C1_Witness ==
  \E p, q \in Procs :
    /\ pc[p] = "done" /\ ops[p][1] = DefaultCreate("AlreadyExists")
    /\ ret[p].err = NoErr /\ ~ret[p].vh.nil
    /\ pc[q] = "done" /\ ops[q] = <<DefaultCreate("StorageError")>>

\* the step of call p that lists the virtual hosts, when the List succeeds
ListStep(p) ==
  /\ pc[p] = "list" /\ pc'[p] # "list"
  /\ ops'[p] = Append(ops[p], ListOk)

\* the step of call p that creates the virtual host of its domain
CreateStep(p) == pc[p] = "create" /\ pc'[p] # "create"

\* C2 as stated: a call with no explicit name and a domain that no stored
\* virtual host lists fails naming the domain when create is false, and, when
\* create is true, returns a new virtual host named after the domain whose
\* domain list is exactly [domain], with created=true (storage faults set aside).
C2_Original ==
  \A p \in Procs :
    (/\ pc[p] = "done" /\ vhostname[p] = "" /\ domain[p] # ""
     /\ ~Faulted(p)
     /\ Len(ops[p]) >= 2 /\ ops[p][2] = ListOk /\ validOnes[p] = {})
    => IF create[p]
       THEN ret[p] = Return(VirtualHost(domain[p], <<domain[p]>>), TRUE, NoErr)
       ELSE ret[p] = Return(NilVHost, FALSE, NoneForDomainErr(domain[p]))

\* C2 (amended): when the List of such a call shows no virtual host listing
\* the domain, create=false ends the call with the error naming the domain and
\* storage unchanged; create=true makes the call issue a Create of the virtual
\* host named after the domain with domain list [domain], and the call returns
\* that stored virtual host with created=true exactly when this Create
\* succeeds; when the Create is rejected the call returns the Create's error
\* with no virtual host and created=false, and storage is unchanged.
C2_CreateWhenUnowned ==
  [][\A p \in Procs :
       /\ (ListStep(p) /\ Listing(store, domain[p]) = {}) =>
            /\ store' = store
            /\ IF create[p]
               THEN pc'[p] = "create"
               ELSE /\ pc'[p] = "done"
                    /\ ret'[p] = Return(NilVHost, FALSE, NoneForDomainErr(domain[p]))
       /\ CreateStep(p) =>
            /\ pc'[p] = "done"
            /\ Len(ops'[p]) = 3
            /\ ops'[p][3].op = "Create" /\ ops'[p][3].name = domain[p]
            /\ IF ops'[p][3].err = "nil"
               THEN /\ store[domain[p]].nil
                    /\ store' = [store EXCEPT ![domain[p]] =
                                   VirtualHost(domain[p], <<domain[p]>>)]
                    /\ ret'[p] = Return(store'[domain[p]], TRUE, NoErr)
               ELSE /\ store' = store
                    /\ ret'[p].vh = NilVHost /\ ~ret'[p].created
                    /\ ret'[p].err.kind = ops'[p][3].err
                    /\ ret'[p].err.kind = "AlreadyExists" <=>
                         (~store[domain[p]].nil /\ ops'[p][3].err # "StorageError")
     ]_vars

C2_Witness ==
  \E p, q \in Procs :
    /\ pc[p] = "done" /\ vhostname[p] = "" /\ domain[p] = "a.com" /\ create[p]
    /\ ret[p] = Return(VirtualHost("a.com", <<"a.com">>), TRUE, NoErr)
    /\ store["a.com"] = VirtualHost("a.com", <<"a.com">>)
    /\ pc[q] = "done" /\ vhostname[q] = "" /\ domain[q] = defaultVHost
    /\ ~create[q] /\ ret[q].err = NoneForDomainErr(defaultVHost)

\* C3: when the List of a call with no explicit name shows two or more stored
\* virtual hosts listing the domain, the call ends there with the error that
\* carries the domain and the number of matches, whatever the create flag is;
\* it returns no virtual host and leaves storage unchanged.
C3_AmbiguousDomainFails ==
  [][\A p \in Procs :
       (ListStep(p) /\ Cardinality(Listing(store, domain[p])) >= 2) =>
          /\ pc'[p] = "done"
          /\ ret'[p] = Return(NilVHost, FALSE,
                              MatchedManyErr(domain[p],
                                             Cardinality(Listing(store, domain[p]))))
          /\ store' = store
     ]_vars

C3_Witness ==
  \E p, q \in Procs :
    /\ pc[p] = "done" /\ create[p] /\ ret[p].err = MatchedManyErr("a.com", 2)
    /\ pc[q] = "done" /\ ~create[q] /\ ret[q].err = MatchedManyErr("a.com", 2)
    /\ store["a.com"].nil

\* C4: a call with an explicit name issues, after the Create of "default",
\* one Get of that name and nothing else (no List, no Create of the name, no
\* matter what the domain and the create flag are); when the Get finds the
\* virtual host the call returns it with created=false, and when no virtual
\* host of that name exists the call fails with the not-found error and the
\* named virtual host is still absent from storage.
C4_ExplicitNameGetOnly ==
  [][\A p \in Procs :
       vhostname[p] # "" =>
         /\ pc'[p] \in {"idle", "createDefault", "getNamed", "done"}
         /\ Len(ops'[p]) <= 2
         /\ Len(ops'[p]) = 2 => ops'[p][2].op = "Get" /\ ops'[p][2].name = vhostname[p]
         /\ (pc[p] = "getNamed" /\ pc'[p] # "getNamed") =>
              /\ pc'[p] = "done"
              /\ store' = store
              /\ ops'[p][2].err # "StorageError" =>
                   IF ~store[vhostname[p]].nil
                   THEN ret'[p] = Return(store[vhostname[p]], FALSE, NoErr)
                   ELSE ret'[p] = Return(NilVHost, FALSE, NotFoundErr)
     ]_vars

C4_Witness ==
  \E p, q \in Procs :
    /\ pc[p] = "done" /\ vhostname[p] = "vh1" /\ domain[p] = "a.com" /\ create[p]
    /\ ret[p].err = NotFoundErr /\ store["vh1"].nil /\ store["a.com"].nil
    /\ pc[q] = "done" /\ vhostname[q] = defaultVHost /\ domain[q] = "a.com"
    /\ ret[q] = Return(store[defaultVHost], FALSE, NoErr)

\* two finished calls that both listed no match for the same domain and both
\* issued the Create for it, neither Create hitting a storage fault
BothCreated(p, q) ==
  /\ p # q /\ pc[p] = "done" /\ pc[q] = "done"
  /\ vhostname[p] = "" /\ vhostname[q] = ""
  /\ domain[p] # "" /\ domain[p] = domain[q]
  /\ create[p] /\ create[q]
  /\ Len(ops[p]) = 3 /\ Len(ops[q]) = 3
  /\ ops[p][3].err # "StorageError" /\ ops[q][3].err # "StorageError"

\* C5 as stated: when both calls issued the Create for the domain, exactly one
\* Create succeeds and the other call returns the already-exists error.
C5_Original ==
  \A p, q \in Procs :
    BothCreated(p, q) =>
      \/ ops[p][3].err = "nil" /\ ret[q] = Return(NilVHost, FALSE, AlreadyExistsErr)
      \/ ops[q][3].err = "nil" /\ ret[p] = Return(NilVHost, FALSE, AlreadyExistsErr)

\* C5 (amended): when both calls issued the Create for the domain, at most one
\* Create succeeds, and that call returns created=true; every call whose
\* Create is rejected returns the already-exists error with no virtual host
\* and created=false (it is not swallowed); both are rejected when a virtual
\* host named after the domain existed without listing it.
C5_RaceNotSwallowed ==
  \A p, q \in Procs :
    BothCreated(p, q) =>
      /\ ~(ops[p][3].err = "nil" /\ ops[q][3].err = "nil")
      /\ \A r \in {p, q} :
           IF ops[r][3].err = "nil"
           THEN ret[r] = Return(VirtualHost(domain[r], <<domain[r]>>), TRUE, NoErr)
           ELSE /\ ops[r][3].err = "AlreadyExists"
                /\ ret[r] = Return(NilVHost, FALSE, AlreadyExistsErr)
      /\ (ops[p][3].err = "AlreadyExists" /\ ops[q][3].err = "AlreadyExists") =>
           ~contains(store[domain[p]], domain[p])

C5_Witness ==
  \E p, q \in Procs :
    /\ BothCreated(p, q) /\ domain[p] = "a.com"
    /\ ret[p].created /\ ret[q].err = AlreadyExistsErr

\* C10: a step of any call, in any interleaving, taken from a storage state
\* in which every domain is listed by at most one virtual host leads to such
\* a state; a virtual host the resolver adds is "default" with no domains or
\* is named after its single domain.
Unambiguous(s) ==
  \A n, m \in Stored(s) :
    n # m => \A i \in 1..Len(s[n].Domains), j \in 1..Len(s[m].Domains) :
               s[n].Domains[i] # s[m].Domains[j]

C10_DomainsStayUnambiguous ==
  [][/\ Unambiguous(store) => Unambiguous(store')
     /\ \A n \in Stored(store') \ Stored(store) :
          \/ store'[n] = VirtualHost(defaultVHost, <<>>)
          \/ store'[n] = VirtualHost(n, <<n>>)
    ]_vars

C10_Witness ==
  \E p, q \in Procs :
    /\ BothCreated(p, q) /\ domain[p] = "a.com"
    /\ Unambiguous(store)
    /\ Listing(store, "a.com") = {"a.com"}
    /\ store[defaultVHost] = VirtualHost(defaultVHost, <<>>)

(* ----------------------- properties of the route builder ------------- *)
PathsSet(r) == Cardinality({f \in {"pathExact", "pathRegex", "pathPrefix"} : r[f] # ""})

\* every comma-separated entry of a header string has a colon
HeadersWellFormed(h) ==
  \/ h = <<>>
  \/ LET cuts == {0, Len(h) + 1} \cup {i \in 1..Len(h) : h[i] = ","}
     IN \A a, b \in cuts :
          (a < b /\ \A c \in cuts : ~(a < c /\ c < b)) =>
             \E k \in (a + 1)..(b - 1) : h[k] = ":"

\* C6: with an upstream name, a non-empty event type gives an event matcher
\* whatever the path, verb and header inputs are; with an empty event type
\* the build succeeds only if exactly one of pathExact, pathRegex, pathPrefix
\* is set, and fails when none or more than one of them is set.
C6_ExactlyOnePath ==
  (routeRet.called /\ rd.upstream # "") =>
    IF rd.event # ""
    THEN routeRet.err = "nil" /\ routeRet.route.Matcher = EventMatcher(rd.event)
    ELSE /\ routeRet.err = "nil" => PathsSet(rd) = 1
         /\ PathsSet(rd) = 0 => routeRet.err # "nil" /\ routeRet.route.nil
         /\ PathsSet(rd) > 1 => routeRet.err # "nil" /\ routeRet.route.nil

ValidMatcher(r) ==
  r.event # "" \/ (PathsSet(r) >= 1 /\ HeadersWellFormed(r.headers))

\* C7: with a valid matcher, an empty upstream name makes the build fail with
\* no route, also when a function name is given; with an upstream name, a
\* function name gives a function destination of that upstream and function
\* and no function name gives an upstream destination of that upstream; every
\* returned route has a matcher and a single destination and no others.
C7_Destination ==
  /\ (routeRet.called /\ ValidMatcher(rd)) =>
       IF rd.upstream = ""
       THEN routeRet.err # "nil" /\ routeRet.route = NilRoute
       ELSE /\ routeRet.err = "nil" /\ ~routeRet.route.nil
            /\ routeRet.route.SingleDestination =
                 IF rd.function # ""
                 THEN FunctionDestination(rd.upstream, rd.function)
                 ELSE UpstreamDestination(rd.upstream)
  /\ (routeRet.called /\ routeRet.err = "nil") =>
       /\ routeRet.route.Matcher.kind \in {"event", "request"}
       /\ routeRet.route.SingleDestination.kind \in {"upstream", "function"}
       /\ routeRet.route.SingleDestination.UpstreamName # ""
       /\ routeRet.route.MultipleDestinations = <<>>
  /\ (routeRet.called /\ routeRet.err # "nil") => routeRet.route = NilRoute

C7_Witness ==
  /\ routeRet.called /\ rd.event = "" /\ rd.pathRegex # "" /\ rd.headers # <<>>
  /\ rd.function # "" /\ rd.upstream # ""
  /\ routeRet.route.SingleDestination = FunctionDestination("u1", "f1")
  /\ routeRet.route.Matcher.kind = "request"

(* ---------------------- properties of the upstream lookup ------------ *)
\* the value of a string of decimal digits
RECURSIVE DecimalValue(_)
DecimalValue(s) ==
  IF s = <<>> THEN 0
  ELSE 10 * DecimalValue(SubSeq(s, 1, Len(s) - 1)) +
       (CHOOSE d \in 0..9 : Digit(d) = s[Len(s)])

\* s is the decimal text of the positive number n
DecimalText(s, n) ==
  /\ Len(s) >= 1
  /\ \A i \in 1..Len(s) : \E d \in 0..9 : Digit(d) = s[i]
  /\ s[1] # "0"
  /\ DecimalValue(s) = n

\* the upstream matches the query
KubeMatch(u, k) ==
  /\ u.Type = "kubernetes"
  /\ u.Spec.service_name = Str(k.name)
  /\ k.namespace # <<>> => u.Spec.service_namespace = Str(k.namespace)
  /\ k.port # 0 => /\ u.Spec.service_port.t = "string"
                   /\ DecimalText(u.Spec.service_port.s, k.port)

Matching == {i \in 1..Len(upstreams) : KubeMatch(upstreams[i], kube)}

\* the lookup has run and its List returned the stored upstreams
Listed == upstreamRet.called /\ upstreamRet.err # "StorageError"

\* C8 as stated: the lookup succeeds only when exactly one listed upstream
\* matches the query, and fails when none or more than one matches.
C8_Original ==
  Listed => (upstreamRet.err = "nil" <=> Cardinality(Matching) = 1)

\* C8 (amended): the lookup succeeds when at least one listed upstream
\* matches the query, also when more than one matches, and then returns a
\* listed upstream that matches; it fails only when no listed upstream matches.
C8_AtLeastOneMatch ==
  Listed =>
    /\ upstreamRet.err = "nil" <=> Cardinality(Matching) >= 1
    /\ upstreamRet.err = "nil" =>
         \E i \in Matching : upstreamRet.u = upstreams[i]
    /\ upstreamRet.err # "nil" => upstreamRet.u.nil

C8_Witness ==
  /\ upstreamRet.called /\ upstreamRet.err = "nil"
  /\ Cardinality(Matching) = 2 /\ kube.port = 80 /\ kube.namespace = <<"n", "s">>

\* C9: the lookup returns the first listed upstream that has type kubernetes,
\* a string service_name equal to the query name, a service_namespace equal
\* to the query namespace when that is non-empty and a string service_port
\* equal to the decimal text of the query port when that is non-zero; an
\* upstream lacking a required field is skipped; the lookup fails with the
\* not-found error exactly when no listed upstream satisfies this.
C9_FirstMatchWins ==
  Listed =>
    IF Matching = {}
    THEN upstreamRet = [called |-> TRUE, u |-> NilUpstream, err |-> "UnableToFind"]
    ELSE LET first == CHOOSE i \in Matching : \A j \in Matching : i <= j
         IN upstreamRet = [called |-> TRUE, u |-> upstreams[first], err |-> "nil"]

C9_Witness ==
  /\ upstreamRet.called /\ Len(upstreams) = 2
  /\ upstreams[1].Type = "kubernetes" /\ upstreams[1].Spec.service_name = Str(<<"x">>)
  /\ upstreams[1].Spec.service_port = Num(80)
  /\ kube.port = 80 /\ kube.namespace = <<>>
  /\ upstreamRet.err = "nil" /\ upstreamRet.u.Name = 2
  /\ upstreamRet.u.Spec.service_namespace = Str(<<"n", "s", "2">>)
====
